---- MODULE Spec2Model ----
(***************************************************************************)
(* Model of analyze.py: discovery of the PGN files, extraction of one      *)
(* record per game, and the aggregations written to CSV files.             *)
(*                                                                         *)
(* Strings that the program takes apart or orders (header values, URLs,    *)
(* opening names, results) are sequences of code points, so that           *)
(* str.split, str.replace, `in` and the ordering of group keys are         *)
(* computed and not assumed.  File names and messages are TLA+ strings.    *)
(***************************************************************************)
EXTENDS Integers, Sequences, FiniteSets, TLC

VARIABLES
    dir,       \* the files of PGN_DIR: each a sequence of games
    tieBreak,  \* where the sort of this build puts equal values
    files,     \* the paths glob.glob returned (indices into dir)
    pc,        \* the statement the script is at
    fileIdx,   \* position of the loop over files
    fpos,      \* games consumed from the open file
    count,     \* the per-file counter
    records,   \* the record table
    printed,   \* the per-file counts printed so far
    df,        \* the DataFrame built from records
    disk,      \* the CSV files of the working directory, by name
    writes,    \* the to_csv calls made so far
    error      \* the exception that ended the process, if any

vars == <<dir, tieBreak, files, pc, fileIdx, fpos, count, records, printed,
          df, disk, writes, error>>

(***************************************************************************)
(* Bounds of the model.                                                    *)
(***************************************************************************)
MaxFiles == 2
MaxGames == 2
MaxPairs == 12
MaxExtra == 2

(***************************************************************************)
(* Program constants.                                                      *)
(***************************************************************************)
PGN_DIR == "./pgn"
TopN == 10

Unknown == <<85, 110, 107, 110, 111, 119, 110>>              \* "Unknown"
Star == <<42>>                                               \* "*"
OpeningsSep == <<47, 111, 112, 101, 110, 105, 110, 103, 115, 47>> \* "/openings/"
QuestionMark == <<63>>                                       \* "?"
Dash == <<45>>                                               \* "-"
Space == <<32>>                                              \* " "
NoneVal == <<-1>>                                            \* Python None

(***************************************************************************)
(* Python str operations.                                                  *)
(***************************************************************************)
StartsWith(s, sep) ==
    /\ Len(sep) <= Len(s)
    /\ SubSeq(s, 1, Len(sep)) = sep

Contains(s, sep) ==
    \E p \in 1..(Len(s) + 1) : StartsWith(SubSeq(s, p, Len(s)), sep)

\* s.split(sep): the pieces between the non-overlapping occurrences of sep,
\* scanned from the left.
RECURSIVE SplitFrom(_, _, _)
SplitFrom(s, sep, piece) ==
    IF s = <<>> THEN <<piece>>
    ELSE IF StartsWith(s, sep)
         THEN <<piece>> \o SplitFrom(SubSeq(s, Len(sep) + 1, Len(s)), sep, <<>>)
         ELSE SplitFrom(Tail(s), sep, Append(piece, Head(s)))

Split(s, sep) == SplitFrom(s, sep, <<>>)

\* s.replace(old, new)
RECURSIVE Replace(_, _, _)
Replace(s, old, new) ==
    IF s = <<>> THEN <<>>
    ELSE IF StartsWith(s, old)
         THEN new \o Replace(SubSeq(s, Len(old) + 1, Len(s)), old, new)
         ELSE <<Head(s)>> \o Replace(Tail(s), old, new)

\* a < b for Python strings: lexicographic on code points.
StrLess(a, b) ==
    \E i \in 1..(Len(a) + 1) :
        /\ i <= Len(b)
        /\ SubSeq(a, 1, i - 1) = SubSeq(b, 1, i - 1)
        /\ (i = Len(a) + 1 \/ a[i] < b[i])

(***************************************************************************)
(* Per-game field extraction.                                              *)
(***************************************************************************)
\* game.headers.get(key, default)
HeadersGet(headers, key, default) ==
    IF key \in DOMAIN headers THEN headers[key] ELSE default

\* Python truthiness of an optional string
Truthy(s) == s # NoneVal /\ s # <<>>

OpeningFromUrlKeepQuery(eco_url) ==
    Replace(Split(eco_url, OpeningsSep)[Len(Split(eco_url, OpeningsSep))], Dash, Space)

OpeningFromUrl(eco_url) ==
    LET after == Split(eco_url, OpeningsSep)[Len(Split(eco_url, OpeningsSep))]
    IN  Replace(Split(after, QuestionMark)[1], Dash, Space)

OpeningName(headers) ==
    LET opening == HeadersGet(headers, "Opening", NoneVal)
    IN  IF Truthy(opening) THEN opening
        ELSE LET eco_url == HeadersGet(headers, "ECOUrl", <<>>)
             IN  IF Contains(eco_url, OpeningsSep)
                 THEN OpeningFromUrl(eco_url)
                 ELSE Unknown

MakeRecord(game) ==
    [ECO     |-> HeadersGet(game.headers, "ECO", Unknown),
     Opening |-> OpeningName(game.headers),
     Moves   |-> Len(game.mainline),
     Result  |-> HeadersGet(game.headers, "Result", Star),
     Game    |-> game]

(***************************************************************************)
(* pandas operations on the record table.                                  *)
(***************************************************************************)
Min2(a, b) == IF a <= b THEN a ELSE b

\* Order of group keys (tuples of Python strings), as groupby(sort=True) uses.
KeyLess(a, b) ==
    \E i \in 1..Len(a) :
        /\ \A j \in 1..(i - 1) : a[j] = b[j]
        /\ StrLess(a[i], b[i])

RowKey(row, cols) == [i \in 1..Len(cols) |-> row[cols[i]]]

RECURSIVE SortKeys(_)
SortKeys(S) ==
    IF S = {} THEN <<>>
    ELSE LET m == CHOOSE x \in S : \A y \in S \ {x} : KeyLess(x, y)
         IN  <<m>> \o SortKeys(S \ {m})

\* The distinct keys in the order of their first appearance in the table.
RECURSIVE FirstSeenKeys(_, _)
FirstSeenKeys(table, cols) ==
    IF table = <<>> THEN <<>>
    ELSE LET k == RowKey(Head(table), cols)
             rest == FirstSeenKeys(Tail(table), cols)
         IN  <<k>> \o SelectSeq(rest, LAMBDA x : x # k)

GroupSizeOver(table, cols, keys) ==
    [j \in 1..Len(keys) |->
        [key   |-> keys[j],
         Count |-> Cardinality({i \in 1..Len(table) : RowKey(table[i], cols) = keys[j]})]]

GroupSizeUnsorted(table, cols) ==
    GroupSizeOver(table, cols, FirstSeenKeys(table, cols))

\* table.groupby(cols).size(): one row per distinct key, keys ascending.
GroupSize(table, cols) ==
    GroupSizeOver(table, cols,
                  SortKeys({RowKey(table[i], cols) : i \in 1..Len(table)}))

\* Values sorted on are exact quotients <<numerator, denominator>>.
RECURSIVE Gcd(_, _)
Gcd(a, b) == IF b = 0 THEN a ELSE Gcd(b, a % b)

Quotient(a, b) == <<a \div Gcd(a, b), b \div Gcd(a, b)>>

QuotientGreater(x, y) == x[1] * y[2] > y[1] * x[2]

QuotientAdd(x, y) == Quotient(x[1] * y[2] + y[1] * x[2], x[2] * y[2])

\* sort_values(ascending=False) with the default kind: the order of the
\* positions by value descending; the place of equal values among themselves
\* is whatever the sort of the build gives (tb).
RECURSIVE ArgSortFrom(_, _, _)
ArgSortFrom(values, remaining, tb) ==
    IF remaining = {} THEN <<>>
    ELSE LET top  == {i \in remaining :
                         \A j \in remaining : ~QuotientGreater(values[j], values[i])}
             pick == IF tb = "first"
                     THEN CHOOSE i \in top : \A j \in top : i <= j
                     ELSE CHOOSE i \in top : \A j \in top : i >= j
         IN  <<pick>> \o ArgSortFrom(values, remaining \ {pick}, tb)

RECURSIVE ArgSortAscFrom(_, _, _)
ArgSortAscFrom(values, remaining, tb) ==
    IF remaining = {} THEN <<>>
    ELSE LET low  == {i \in remaining :
                         \A j \in remaining : ~QuotientGreater(values[i], values[j])}
             pick == IF tb = "first"
                     THEN CHOOSE i \in low : \A j \in low : i <= j
                     ELSE CHOOSE i \in low : \A j \in low : i >= j
         IN  <<pick>> \o ArgSortAscFrom(values, remaining \ {pick}, tb)

ArgSortDesc(values, tb) == ArgSortFrom(values, DOMAIN values, tb)

Take(table, order) == [j \in 1..Len(order) |-> table[order[j]]]

RECURSIVE SumCount(_)
SumCount(table) ==
    IF table = <<>> THEN 0 ELSE Head(table).Count + SumCount(Tail(table))

OpeningSummaryAscending(table, tb) ==
    LET g == GroupSize(table, <<"Opening">>)
        sorted == Take(g, ArgSortAscFrom([i \in 1..Len(g) |-> <<g[i].Count, 1>>],
                                         1..Len(g), tb))
    IN  [j \in 1..Len(sorted) |->
            [Opening |-> sorted[j].key[1], Count |-> sorted[j].Count]]

\* df.groupby("Opening").size().sort_values(ascending=False)
OpeningSummary(table, tb) ==
    LET g == GroupSize(table, <<"Opening">>)
        sorted == Take(g, ArgSortDesc([i \in 1..Len(g) |-> <<g[i].Count, 1>>], tb))
    IN  [j \in 1..Len(sorted) |->
            [Opening |-> sorted[j].key[1], Count |-> sorted[j].Count]]

AggregateRateOverAll(table, col, tb) ==
    LET g       == GroupSize(table, <<col, "Result">>)
        byCount == Take(g, ArgSortDesc([i \in 1..Len(g) |-> <<g[i].Count, 1>>], tb))
        total   == SumCount(byCount)
        head    == SubSeq(byCount, 1, Min2(TopN, Len(byCount)))
        rate    == [i \in 1..Len(head) |-> Quotient(head[i].Count, total)]
        byRate  == ArgSortDesc(rate, tb)
    IN  [j \in 1..Len(byRate) |->
            [Column   |-> col,
             Category |-> head[byRate[j]].key[1],
             Win      |-> head[byRate[j]].key[2],
             WinRate  |-> rate[byRate[j]]]]

\* groupby([col, "Result"]).size().reset_index(name="Count")
\*   .sort_values("Count", ascending=False).head(10)
\*   .assign(WinRate = Count / Count.sum()).sort_values("WinRate", ascending=False)
\*   .drop("Count").reset_index(drop=True).rename(Result -> Win)
Aggregate(table, col, tb) ==
    LET g       == GroupSize(table, <<col, "Result">>)
        byCount == Take(g, ArgSortDesc([i \in 1..Len(g) |-> <<g[i].Count, 1>>], tb))
        head    == SubSeq(byCount, 1, Min2(TopN, Len(byCount)))
        total   == SumCount(head)
        rate    == [i \in 1..Len(head) |-> Quotient(head[i].Count, total)]
        byRate  == ArgSortDesc(rate, tb)
    IN  [j \in 1..Len(byRate) |->
            [Column   |-> col,
             Category |-> head[byRate[j]].key[1],
             Win      |-> head[byRate[j]].key[2],
             WinRate  |-> rate[byRate[j]]]]

(***************************************************************************)
(* Input directories.  A game is its headers (a function on the tags that  *)
(* are present) and its main line; a file is a sequence of games; a        *)
(* directory is a sequence of files, in the order of their names.          *)
(***************************************************************************)
Absent == NoneVal

MkHeaders(opening, eco_url, eco, result) ==
    LET all == [Opening |-> opening, ECOUrl |-> eco_url, ECO |-> eco, Result |-> result]
    IN  [k \in {t \in DOMAIN all : all[t] # Absent} |-> all[k]]

MkGame(headers, n) == [headers |-> headers, mainline |-> [i \in 1..n |-> "move"]]

WhiteWins == <<49, 45, 48>>                                  \* "1-0"
BlackWins == <<48, 45, 49>>                                  \* "0-1"
Draw == <<49, 47, 50, 45, 49, 47, 50>>                       \* "1/2-1/2"
ResultTokens == <<WhiteWins, BlackWins, Draw>>

C50 == <<67, 53, 48>>                                        \* "C50"
UrlSlug == OpeningsSep \o <<83, 45, 68>>                     \* "/openings/S-D"
UrlQuery == <<104>> \o OpeningsSep \o <<81, 45, 71, 45, 68, 63, 118, 61, 120>>
                                                     \* "h/openings/Q-G-D?v=x"
UrlPlain == <<104, 47, 120, 45, 121>>                        \* "h/x-y"
UrlTwice == OpeningsSep \o <<97>> \o OpeningsSep \o <<66, 45, 67, 63, 120, 63, 45>>
                                          \* "/openings/a/openings/B-C?x?-"
UrlQueryFirst == <<104, 63, 113, 45>> \o OpeningsSep \o <<69, 45>>
                                                     \* "h?q-/openings/E-"
UrlNoSlug == <<104>> \o OpeningsSep                          \* "h/openings/"

\* Every combination of the four tags, one game in one file.
HeaderGames ==
    {MkGame(MkHeaders(o, u, e, r), 1) :
        o \in {Absent, <<>>, <<73>>, <<75, 45, 73>>},
        u \in {Absent, <<>>, UrlSlug, UrlQuery, UrlPlain, UrlTwice, UrlQueryFirst,
               UrlNoSlug},
        e \in {Absent, C50},
        r \in {Absent, WhiteWins, Draw}}

HeaderDirs == {<< <<g>> >> : g \in HeaderGames}

\* Every directory of at most MaxFiles files of at most MaxGames games.
FewGames ==
    {MkGame(MkHeaders(<<73>>, Absent, C50, WhiteWins), 2),
     MkGame(MkHeaders(Absent, UrlSlug, Absent, Absent), 0)}

FewDirs ==
    UNION {[1..n -> UNION {[1..m -> FewGames] : m \in 0..MaxGames}] : n \in 0..MaxFiles}

\* One file with a game of each of the first k (opening, result) pairs, in the
\* reverse of their key order, then ea more games of pair a and, when b is
\* a pair, one more of pair b.  Pairs 1 and 2 share their opening; every later pair has its own.
PairGame(i) ==
    LET letter == IF i <= 2 THEN 65 ELSE 63 + i
        res == ((i - 1) % Len(ResultTokens)) + 1
    IN  MkGame(MkHeaders(<<letter>>, Absent, <<69, 48 + (i % 2)>>, ResultTokens[res]),
               i % 3)

PairFile(k, a, ea, b) ==
    [i \in 1..k |-> PairGame(k + 1 - i)]
        \o [i \in 1..ea |-> PairGame(a)]
        \o (IF b > 0 THEN <<PairGame(b)>> ELSE <<>>)

PairDirs ==
    {<<PairFile(k, a, ea, last * k)>> :
        k \in (MaxPairs - 3)..MaxPairs, a \in 1..MaxPairs, ea \in 0..MaxExtra,
        last \in 0..1}

(***************************************************************************)
(* The program.                                                            *)
(***************************************************************************)
NoError == <<>>
NoFilesError == <<"RuntimeError", "No .pgn files found in", PGN_DIR>>
NoGamesError == <<"RuntimeError", "No games parsed! Check your PGN files for valid games.">>
StyleError == <<"AttributeError", "'NoneType' object has no attribute 'style'">>

Init ==
    /\ dir \in FewDirs \cup HeaderDirs \cup PairDirs
    /\ tieBreak \in {"first", "last"}
    /\ files = <<>>
    /\ pc = "discover"
    /\ fileIdx = 0
    /\ fpos = 0
    /\ count = 0
    /\ records = <<>>
    /\ printed = <<>>
    /\ df = <<>>
    /\ disk = <<>>
    /\ writes = <<>>
    /\ error = NoError

\* glob.glob: the paths of the directory, in the order the listing gives.
Listings(d) ==
    {p \in [1..Len(d) -> 1..Len(d)] : \A i, j \in 1..Len(d) : p[i] = p[j] => i = j}

DiscoverUnchecked ==
    /\ pc = "discover"
    /\ files' \in Listings(dir)
    /\ fileIdx' = 1
    /\ pc' = "loop"
    /\ UNCHANGED <<dir, tieBreak, fpos, count, records, printed, df, disk, writes, error>>

Discover ==
    /\ pc = "discover"
    /\ files' \in Listings(dir)
    /\ IF files' = <<>>
       THEN /\ pc' = "fatal"
            /\ error' = NoFilesError
            /\ UNCHANGED fileIdx
       ELSE /\ pc' = "loop"
            /\ fileIdx' = 1
            /\ UNCHANGED error
    /\ UNCHANGED <<dir, tieBreak, fpos, count, records, printed, df, disk, writes>>

OpenFileKeepCount ==
    /\ pc = "loop"
    /\ fileIdx <= Len(files)
    /\ fpos' = 0
    /\ pc' = "read"
    /\ UNCHANGED <<dir, tieBreak, files, fileIdx, count, records, printed, df, disk, writes, error>>

OpenFile ==
    /\ pc = "loop"
    /\ fileIdx <= Len(files)
    /\ fpos' = 0
    /\ count' = 0
    /\ pc' = "read"
    /\ UNCHANGED <<dir, tieBreak, files, fileIdx, records, printed, df, disk, writes, error>>

\* chess.pgn.read_game returned a game
ReadGame ==
    /\ pc = "read"
    /\ fpos < Len(dir[files[fileIdx]])
    /\ LET game == dir[files[fileIdx]][fpos + 1]
       IN  records' = Append(records, MakeRecord(game))
    /\ fpos' = fpos + 1
    /\ count' = count + 1
    /\ UNCHANGED <<dir, tieBreak, files, pc, fileIdx, printed, df, disk, writes, error>>

\* chess.pgn.read_game returned None
EndOfFile ==
    /\ pc = "read"
    /\ fpos = Len(dir[files[fileIdx]])
    /\ printed' = Append(printed, count)
    /\ fileIdx' = fileIdx + 1
    /\ pc' = "loop"
    /\ UNCHANGED <<dir, tieBreak, files, fpos, count, records, df, disk, writes, error>>

CheckRecordsUnchecked ==
    /\ pc = "loop"
    /\ fileIdx > Len(files)
    /\ df' = records
    /\ pc' = "summary"
    /\ UNCHANGED <<dir, tieBreak, files, fileIdx, fpos, count, records, printed, disk, writes, error>>

CheckRecords ==
    /\ pc = "loop"
    /\ fileIdx > Len(files)
    /\ IF records = <<>>
       THEN /\ pc' = "fatal"
            /\ error' = NoGamesError
            /\ UNCHANGED df
       ELSE /\ df' = records
            /\ pc' = "summary"
            /\ UNCHANGED error
    /\ UNCHANGED <<dir, tieBreak, files, fileIdx, fpos, count, records, printed, disk, writes>>

WriteFile(d, name, content) ==
    [f \in DOMAIN d \cup {name} |-> IF f = name THEN content ELSE d[f]]

WriteOpeningSummary ==
    /\ pc = "summary"
    /\ disk' = WriteFile(disk, "opening_summary.csv", OpeningSummary(df, tieBreak))
    /\ writes' = Append(writes, [name |-> "opening_summary.csv", by |-> <<"Opening">>])
    /\ pc' = "aggregate"
    /\ UNCHANGED <<dir, tieBreak, files, fileIdx, fpos, count, records, printed, df, error>>

\* The statement of lines 78-100: to_csv writes the file and returns None,
\* and the attribute lookup .style on None raises.  Nothing after it runs.
AggregateByOpening ==
    /\ pc = "aggregate"
    /\ disk' = WriteFile(disk, "error_summary.csv", Aggregate(df, "Opening", tieBreak))
    /\ writes' = Append(writes, [name |-> "error_summary.csv", by |-> <<"Opening", "Result">>])
    /\ pc' = "fatal"
    /\ error' = StyleError
    /\ UNCHANGED <<dir, tieBreak, files, fileIdx, fpos, count, records, printed, df>>

Next ==
    \/ Discover
    \/ OpenFile
    \/ ReadGame
    \/ EndOfFile
    \/ CheckRecords
    \/ WriteOpeningSummary
    \/ AggregateByOpening

Spec == Init /\ [][Next]_vars

(***************************************************************************)
(* Properties.                                                             *)
(***************************************************************************)
Ended == pc \in {"fatal", "done"}

ExitedNormally == pc = "done"

WasWritten(by) == \E i \in 1..Len(writes) : writes[i].by = by

AllOutputsWritten ==
    /\ WasWritten(<<"Opening">>)
    /\ WasWritten(<<"Opening", "Result">>)
    /\ WasWritten(<<"ECO", "Result">>)

\* The games of the files listed, file after file, as records.
RECURSIVE GamesOf(_, _)
GamesOf(d, listing) ==
    IF listing = <<>> THEN <<>>
    ELSE d[Head(listing)] \o GamesOf(d, Tail(listing))

RecordsOf(d, listing) ==
    LET games == GamesOf(d, listing)
    IN  [i \in 1..Len(games) |-> MakeRecord(games[i])]

RECURSIVE SumSeq(_)
SumSeq(q) == IF q = <<>> THEN 0 ELSE Head(q) + SumSeq(Tail(q))

\* C1: a run that discovers a file and parses a game exits normally, after
\* the opening-frequency file and both breakdowns have been written, and the
\* only fatal exits are "no files found" and "no games parsed".
C1_ExitsNormallyAfterOutputs ==
    /\ (Ended /\ files # <<>> /\ records # <<>>)
           => (ExitedNormally /\ AllOutputsWritten)
    /\ (pc = "fatal") => (error \in {NoFilesError, NoGamesError})

\* C2: when the process has ended, either all three outputs have been
\* written or none of them has.
C2_AllOrNothing ==
    Ended => (AllOutputsWritten \/ writes = <<>>)

\* C3: when discovery finds no file the process fails at once with the
\* "no files found" error naming the directory searched; no file has been
\* opened, no game parsed, no record appended and nothing written.
C3_NoFilesFailsFirst ==
    /\ (pc # "discover" /\ dir = <<>>) =>
           /\ pc = "fatal"
           /\ error = NoFilesError
           /\ error[3] = PGN_DIR
           /\ fileIdx = 0 /\ fpos = 0 /\ count = 0
           /\ records = <<>> /\ printed = <<>>
           /\ disk = <<>> /\ writes = <<>>
    /\ (error = NoFilesError) => (dir = <<>> /\ files = <<>>)

C3_Witness == pc = "fatal" /\ dir = <<>> /\ error = NoFilesError

\* C4: when every file has been read to its end and the table is empty the
\* process fails with the "no games parsed" error and nothing has been
\* written; the error is raised only once every file has been processed.
C4_NoGamesFailsBeforeOutput ==
    /\ (error = NoGamesError) =>
           /\ pc = "fatal"
           /\ files # <<>>
           /\ fileIdx = Len(files) + 1
           /\ printed = [j \in 1..Len(files) |-> 0]
           /\ \A f \in 1..Len(dir) : dir[f] = <<>>
           /\ records = <<>>
           /\ disk = <<>> /\ writes = <<>>
    /\ (files # <<>> /\ fileIdx > Len(files) /\ records = <<>> /\ pc # "loop") =>
           /\ pc = "fatal"
           /\ error = NoGamesError

C4_Witness == error = NoGamesError /\ Len(files) = MaxFiles /\ Len(printed) = MaxFiles

\* C5: opening_name is the Opening header when present and non-empty; else,
\* when ECOUrl contains "/openings/", the text after it up to the first "?"
\* with every dash turned into a space; else "Unknown".  classification_code
\* defaults to "Unknown" and result to "*".
LastSepEnd(url) ==
    CHOOSE p \in 1..Len(url) :
        /\ p >= Len(OpeningsSep)
        /\ SubSeq(url, p - Len(OpeningsSep) + 1, p) = OpeningsSep
        /\ \A q \in (p + 1)..Len(url) :
               SubSeq(url, q - Len(OpeningsSep) + 1, q) # OpeningsSep

IsSlugName(name, url) ==
    LET from == LastSepEnd(url)
        stop == IF \E q \in (from + 1)..Len(url) : url[q] = 63
                THEN CHOOSE q \in (from + 1)..Len(url) :
                         /\ url[q] = 63
                         /\ \A t \in (from + 1)..(q - 1) : url[t] # 63
                ELSE Len(url) + 1
    IN  /\ Len(name) = stop - from - 1
        /\ \A i \in 1..Len(name) :
               name[i] = IF url[from + i] = 45 THEN 32 ELSE url[from + i]

HasSep(url) ==
    \E p \in 1..Len(url) :
        /\ p >= Len(OpeningsSep)
        /\ SubSeq(url, p - Len(OpeningsSep) + 1, p) = OpeningsSep

RecordFollowsFallback(r) ==
    LET h == r.Game.headers
        hasOpening == "Opening" \in DOMAIN h /\ Len(h["Opening"]) > 0
        hasSlug == "ECOUrl" \in DOMAIN h /\ HasSep(h["ECOUrl"])
    IN  /\ hasOpening => r.Opening = h["Opening"]
        /\ (~hasOpening /\ hasSlug) => IsSlugName(r.Opening, h["ECOUrl"])
        /\ (~hasOpening /\ ~hasSlug) => r.Opening = <<85, 110, 107, 110, 111, 119, 110>>
        /\ r.ECO = IF "ECO" \in DOMAIN h THEN h["ECO"]
                   ELSE <<85, 110, 107, 110, 111, 119, 110>>
        /\ r.Result = IF "Result" \in DOMAIN h THEN h["Result"] ELSE <<42>>

C5_OpeningFallbackChain ==
    \A i \in 1..Len(records) : RecordFollowsFallback(records[i])

C5_Witness ==
    /\ Len(records) = 1
    /\ "Opening" \notin DOMAIN records[1].Game.headers
    /\ "Result" \notin DOMAIN records[1].Game.headers
    /\ "ECOUrl" \in DOMAIN records[1].Game.headers
    /\ records[1].Game.headers["ECOUrl"] = UrlQuery
    /\ records[1].Opening = <<81, 32, 71, 32, 68>>
    /\ records[1].Result = <<42>>

\* C6: after a run has ended with the breakdown file written, the file holds
\* the by-classification (ECO, Result) slice, the by-opening slice having
\* been written first and overwritten.
C6_LastWriterIsClassification ==
    (Ended /\ "error_summary.csv" \in DOMAIN disk) =>
        /\ disk["error_summary.csv"] = Aggregate(df, "ECO", tieBreak)
        /\ \E i, j \in 1..Len(writes) :
               /\ i < j
               /\ writes[i] = [name |-> "error_summary.csv", by |-> <<"Opening", "Result">>]
               /\ writes[j] = [name |-> "error_summary.csv", by |-> <<"ECO", "Result">>]

\* C7: a written breakdown slice has at most 10 rows, they are the
\* (category, result) pairs of highest count, each WinRate is the pair's count
\* over the sum of the counts of the kept pairs only, the WinRates of one
\* slice sum to 1, and the rows are in descending order of WinRate.
PairCount(table, col, pair) ==
    Cardinality({i \in 1..Len(table) :
                    table[i][col] = pair[1] /\ table[i].Result = pair[2]})

RECURSIVE SumPairCounts(_, _, _)
SumPairCounts(table, col, pairs) ==
    IF pairs = {} THEN 0
    ELSE LET p == CHOOSE x \in pairs : TRUE
         IN  PairCount(table, col, p) + SumPairCounts(table, col, pairs \ {p})

RECURSIVE SumRates(_)
SumRates(slice) ==
    IF slice = <<>> THEN <<0, 1>>
    ELSE QuotientAdd(Head(slice).WinRate, SumRates(Tail(slice)))

SliceIsTopTenRenormalised(slice, table, col) ==
    LET pairs == {<<table[i][col], table[i].Result>> : i \in 1..Len(table)}
        kept  == {<<slice[j].Category, slice[j].Win>> : j \in 1..Len(slice)}
        total == SumPairCounts(table, col, kept)
    IN  /\ Len(slice) <= 10
        /\ Len(slice) = Min2(10, Cardinality(pairs))
        /\ Cardinality(kept) = Len(slice)
        /\ kept \subseteq pairs
        /\ \A p \in kept : \A q \in pairs \ kept :
               PairCount(table, col, p) >= PairCount(table, col, q)
        /\ \A j \in 1..Len(slice) :
               /\ slice[j].Column = col
               /\ slice[j].WinRate[1] * total
                      = PairCount(table, col, <<slice[j].Category, slice[j].Win>>)
                            * slice[j].WinRate[2]
        /\ SumRates(slice) = <<1, 1>>
        /\ \A j \in 1..(Len(slice) - 1) :
               slice[j].WinRate[1] * slice[j + 1].WinRate[2]
                   >= slice[j + 1].WinRate[1] * slice[j].WinRate[2]

C9_OutputsIndependentOfListing ==
    \A listing \in Listings(dir) :
        LET table == RecordsOf(dir, listing)
        IN  /\ ("opening_summary.csv" \in DOMAIN disk) =>
                   disk["opening_summary.csv"] = OpeningSummary(table, tieBreak)
            /\ ("error_summary.csv" \in DOMAIN disk) =>
                   disk["error_summary.csv"] = Aggregate(table, "Opening", tieBreak)

C9_Witness ==
    /\ "error_summary.csv" \in DOMAIN disk
    /\ Len(files) = 2
    /\ files[1] > files[2]
    /\ Len(records) = 2
    /\ StrLess(records[2].Opening, records[1].Opening)

\* C10: during extraction the table holds one record per game parsed so far,
\* in parse order (files in discovery order, games in file order); records
\* are only ever appended; the per-file counter counts the games of the open
\* file alone; and once extraction has ended the table size is the sum of the
\* per-file counts.
FilesDone == IF pc = "discover" \/ files = <<>> THEN 0 ELSE fileIdx - 1

ParsedSoFar ==
    GamesOf(dir, SubSeq(files, 1, FilesDone))
        \o (IF pc = "read" THEN SubSeq(dir[files[fileIdx]], 1, fpos) ELSE <<>>)

TableMatchesParsedGames ==
    /\ records = [i \in 1..Len(ParsedSoFar) |-> MakeRecord(ParsedSoFar[i])]
    /\ (pc = "read") => (count = fpos)
    /\ printed = [j \in 1..FilesDone |-> Len(dir[files[j]])]
    /\ (pc # "discover" /\ fileIdx > Len(files)) => (Len(records) = SumSeq(printed))

AppendOnly ==
    /\ Len(records') \in {Len(records), Len(records) + 1}
    /\ SubSeq(records', 1, Len(records)) = records

C10_TableIsParseOrder == []TableMatchesParsedGames /\ [][AppendOnly]_vars

C10_Witness ==
    /\ pc = "loop"
    /\ Len(files) = 2
    /\ fileIdx = 3
    /\ files[1] > files[2]
    /\ printed = <<2, 1>>
    /\ records[1] # records[2]
    /\ records[1] = records[3]

====
